---- MODULE Spec2Model ----
(***************************************************************************)
(* SbtPackageDatasource (lib/modules/datasource/sbt-package/index.ts):     *)
(* the crawl of directory listings that resolves the releases of an sbt    *)
(* package, and its fallback to the Maven datasource.                      *)
(*                                                                         *)
(* Strings are sequences of one-character strings, so that startsWith,     *)
(* split, join and replace are computed as JavaScript computes them.  The  *)
(* scheme and authority of a URL are one opaque first element (Origin);    *)
(* the pathname of a URL is what follows it.                                *)
(***************************************************************************)
EXTENDS Integers, Sequences, FiniteSets, TLC

(***************************************************************************)
(* JavaScript values                                                       *)
(***************************************************************************)
\* null and undefined where a string is expected
Null == <<"null">>
Undefined == <<"undefined">>
\* null where a string[] is expected
NullList == <<Null>>
\* null where a ReleaseResult is expected
NullResult == [isNull |-> TRUE]

\* JavaScript truthiness of a string | null | undefined
Truthy(s) == s # Null /\ s # Undefined /\ s # <<>>

Range(seq) == {seq[i] : i \in 1..Len(seq)}

(***************************************************************************)
(* String primitives                                                       *)
(***************************************************************************)
StartsWith(s, prefix) ==
  /\ Len(prefix) <= Len(s)
  /\ SubSeq(s, 1, Len(prefix)) = prefix

EndsWith(s, suffix) ==
  /\ Len(suffix) <= Len(s)
  /\ SubSeq(s, Len(s) - Len(suffix) + 1, Len(s)) = suffix

\* positions at which pat occurs in s
Occurrences(s, pat) ==
  {i \in 1..(Len(s) - Len(pat) + 1) : SubSeq(s, i, i + Len(pat) - 1) = pat}

Min(S) == CHOOSE x \in S : \A y \in S : x <= y

\* String.prototype.replace(pat, rep) with a string pattern: the first
\* occurrence only
ReplaceFirst(s, pat, rep) ==
  IF Occurrences(s, pat) = {} THEN s
  ELSE LET i == Min(Occurrences(s, pat))
       IN SubSeq(s, 1, i - 1) \o rep \o SubSeq(s, i + Len(pat), Len(s))

\* String.prototype.replace with /^prefix/
ReplacePrefix(s, prefix, rep) ==
  IF StartsWith(s, prefix) THEN rep \o SubSeq(s, Len(prefix) + 1, Len(s)) ELSE s

\* String.prototype.replace with /suffix$/
ReplaceSuffix(s, suffix, rep) ==
  IF EndsWith(s, suffix) THEN SubSeq(s, 1, Len(s) - Len(suffix)) \o rep ELSE s

\* String.prototype.split(sep) with a one-character separator
RECURSIVE Split(_, _)
Split(s, sep) ==
  IF \A i \in 1..Len(s) : s[i] # sep THEN <<s>>
  ELSE LET i == Min({j \in 1..Len(s) : s[j] = sep})
       IN <<SubSeq(s, 1, i - 1)>> \o Split(SubSeq(s, i + 1, Len(s)), sep)

\* Array.prototype.join(sep)
RECURSIVE Join(_, _)
Join(parts, sep) ==
  IF Len(parts) = 0 THEN <<>>
  ELSE IF Len(parts) = 1 THEN parts[1]
  ELSE parts[1] \o <<sep>> \o Join(Tail(parts), sep)

\* parts[i] of a destructuring assignment: undefined past the end
ElementOrUndefined(parts, i) == IF i <= Len(parts) THEN parts[i] ELSE Undefined

\* [...new Set(list)]: the first occurrence of each element, in order
RECURSIVE Dedupe(_)
Dedupe(list) ==
  IF Len(list) = 0 THEN <<>>
  ELSE LET init == Dedupe(SubSeq(list, 1, Len(list) - 1))
           last == list[Len(list)]
       IN IF last \in Range(init) THEN init ELSE Append(init, last)

(***************************************************************************)
(* Collaborators outside the datasource: the version comparator, the link  *)
(* extractor and the URL helpers                                           *)
(***************************************************************************)
DigitValue(c) ==
  CASE c = "0" -> 0 [] c = "1" -> 1 [] c = "2" -> 2 [] c = "3" -> 3
    [] c = "4" -> 4 [] c = "5" -> 5 [] c = "6" -> 6 [] c = "7" -> 7
    [] c = "8" -> 8 [] c = "9" -> 9 [] OTHER -> 0

\* the number a dot-separated component of a version stands for
RECURSIVE TokenNumber(_)
TokenNumber(tok) ==
  IF Len(tok) = 0 THEN 0
  ELSE 10 * TokenNumber(SubSeq(tok, 1, Len(tok) - 1)) + DigitValue(tok[Len(tok)])

\* component i of a version, a missing one counting as 0 (1.2 equals 1.2.0)
VersionComponent(v, i) ==
  LET toks == Split(v, ".") IN IF i <= Len(toks) THEN TokenNumber(toks[i]) ELSE 0

\* compare(a, b): -1, 0 or 1; numeric by component, not lexicographic
Compare(a, b) ==
  LET n == IF Len(a) > Len(b) THEN Len(a) ELSE Len(b)
      diff == {i \in 1..n : VersionComponent(a, i) # VersionComponent(b, i)}
  IN IF diff = {} THEN 0
     ELSE IF VersionComponent(a, Min(diff)) < VersionComponent(b, Min(diff)) THEN -1
     ELSE 1

\* getLatestVersion(versions): the maximum under the comparator, the first
\* of those that compare equal; null for no versions
RECURSIVE LatestOf(_)
LatestOf(versions) ==
  IF Len(versions) = 1 THEN versions[1]
  ELSE LET latest == LatestOf(SubSeq(versions, 1, Len(versions) - 1))
           version == versions[Len(versions)]
       IN IF Compare(version, latest) = 1 THEN version ELSE latest

GetLatestVersion(versions) ==
  IF versions # NullList /\ Len(versions) > 0 THEN LatestOf(versions) ELSE Null

\* extractPageLinks(html, filterMapHref): the non-null results of the
\* filter over the hrefs of the page, duplicates collapsed.  A page is
\* modelled by the sequence of its hrefs; results is what filterMapHref
\* gives for each of them, in order.
ExtractPageLinks(results) ==
  LET NotNull(x) == x # Null
  IN Dedupe(SelectSeq(results, NotNull))

\* ensureTrailingSlash(url)
EnsureTrailingSlash(url) == IF EndsWith(url, <<"/">>) THEN url ELSE url \o <<"/">>

\* new URL(url).pathname: the URL without its scheme and authority
Pathname(url) == Tail(url)

\* res?.body of downloadHttpProtocol: a response is [ok |-> FALSE] (nothing
\* at the URL, or an empty body) or [ok |-> TRUE, ...] with its content
NoContent == [ok |-> FALSE]
HasContent(res) == res.ok

(***************************************************************************)
(* getArtifactSubdirs, lines 36-72                                         *)
(***************************************************************************)
StrNative == <<"_", "n", "a", "t", "i", "v", "e">>
StrSjs == <<"_", "s", "j", "s">>

\* faulty variant: the _sjs variants are not rejected
SubdirFilterMapKeepsSjs(href, rootPath, artifact) ==
  LET path == ReplaceFirst(href, rootPath, <<>>)
  IN IF StartsWith(path, artifact \o StrNative)
     THEN Null
     ELSE IF path = artifact \/ StartsWith(path, artifact \o <<"_">>)
     THEN path
     ELSE Null

\* the callback given to extractPageLinks, lines 46-60
SubdirFilterMap(href, rootPath, artifact) ==
  LET path == ReplaceFirst(href, rootPath, <<>>)
  IN IF \/ StartsWith(path, artifact \o StrNative)
        \/ StartsWith(path, artifact \o StrSjs)
     THEN Null
     ELSE IF path = artifact \/ StartsWith(path, artifact \o <<"_">>)
     THEN path
     ELSE Null

\* artifactSubdirs as first assigned, line 46
AcceptedSubdirs(hrefs, pkgUrl, artifact) ==
  ExtractPageLinks(
    [i \in 1..Len(hrefs) |-> SubdirFilterMap(hrefs[i], Pathname(pkgUrl), artifact)])

\* `${artifact}_${scalaVersion}`
SuffixedArtifact(artifact, scalaVersion) == artifact \o <<"_">> \o scalaVersion

\* faulty variant: narrows without looking for the suffixed segment
NarrowAlways(subdirs, artifact, scalaVersion) ==
  IF Truthy(scalaVersion)
  THEN <<SuffixedArtifact(artifact, scalaVersion)>>
  ELSE subdirs

\* lines 62-68
NarrowToScalaVersion(subdirs, artifact, scalaVersion) ==
  IF /\ Truthy(scalaVersion)
     /\ SuffixedArtifact(artifact, scalaVersion) \in Range(subdirs)
  THEN <<SuffixedArtifact(artifact, scalaVersion)>>
  ELSE subdirs

(***************************************************************************)
(* getPackageReleases, lines 74-104                                        *)
(***************************************************************************)
\* faulty variant: hidden entries are kept
ReleaseFilterMapKeepsHidden(href, rootPath) == ReplaceFirst(href, rootPath, <<>>)

\* the callback given to extractPageLinks, lines 86-93
ReleaseFilterMap(href, rootPath) ==
  LET path == ReplaceFirst(href, rootPath, <<>>)
  IN IF StartsWith(path, <<".">>) THEN Null ELSE path

\* subdirReleases, line 86
SubdirReleases(hrefs, pkgUrl) ==
  ExtractPageLinks([i \in 1..Len(hrefs) |-> ReleaseFilterMap(hrefs[i], Pathname(pkgUrl))])

\* Array.prototype.sort(compare): stable, ascending
RECURSIVE SortVersions(_)
SortVersions(list) ==
  IF Len(list) <= 1 THEN list
  ELSE LET init == SortVersions(SubSeq(list, 1, Len(list) - 1))
           x == list[Len(list)]
           \* x goes after every element that is not greater than it
           k == Cardinality({i \in 1..Len(init) : Compare(init[i], x) <= 0})
       IN SubSeq(init, 1, k) \o <<x>> \o SubSeq(init, k + 1, Len(init))

\* faulty variant: an empty list is returned where no release was gathered
MergedReleasesEmptyList(releases) == SortVersions(Dedupe(releases))

\* faulty variant: the merged releases are not sorted
MergedReleasesUnsorted(releases) ==
  IF Len(releases) > 0 THEN Dedupe(releases) ELSE NullList

\* lines 98-103
MergedReleases(releases) ==
  IF Len(releases) > 0 THEN SortVersions(Dedupe(releases)) ELSE NullList

(***************************************************************************)
(* getUrls, lines 106-155                                                  *)
(***************************************************************************)
StrPomExt == <<".", "p", "o", "m">>
StrScmPrefix == <<"s", "c", "m", ":">>
StrGitPrefix == <<"g", "i", "t", ":">>
StrGitAtGithub == <<"g", "i", "t", "@", "g", "i", "t", "h", "u", "b">>
StrComColon == <<"c", "o", "m", ":">>
StrHttpsGithub ==
  <<"h", "t", "t", "p", "s", ":", "/", "/", "g", "i", "t", "h", "u", "b", ".", "c", "o", "m", "/">>
StrDotGit == <<".", "g", "i", "t">>
LineTerminators == {"\n", "\r"}

\* faulty variant: the file named after the artifact is tried first
PomFileNamesSwapped(artifactDir, version) ==
  LET artifact == Split(artifactDir, "_")[1]
  IN << artifact \o <<"-">> \o version \o StrPomExt,
        artifactDir \o <<"-">> \o version \o StrPomExt >>

\* pomFileNames, lines 122-126
PomFileNames(artifactDir, version) ==
  LET artifact == Split(artifactDir, "_")[1]
  IN << artifactDir \o <<"-">> \o version \o StrPomExt,
        artifact \o <<"-">> \o version \o StrPomExt >>

\* pomUrl, line 129
PomUrl(searchRoot, artifactDir, version, pomFileName) ==
  searchRoot \o <<"/">> \o artifactDir \o <<"/">> \o version \o <<"/">> \o pomFileName

\* .replace(regEx(/^git@github.com:/), 'https://github.com/'), line 145: the
\* dot of the pattern is not escaped and matches any character
ReplaceGitAtGithub(s) ==
  LET n == Len(StrGitAtGithub)
  IN IF /\ Len(s) >= n + 1 + Len(StrComColon)
        /\ SubSeq(s, 1, n) = StrGitAtGithub
        /\ s[n + 1] \notin LineTerminators
        /\ SubSeq(s, n + 2, n + 1 + Len(StrComColon)) = StrComColon
     THEN StrHttpsGithub \o SubSeq(s, n + 2 + Len(StrComColon), Len(s))
     ELSE s

\* lines 142-146
NormalizeSourceUrl(sourceUrl) ==
  ReplaceSuffix(
    ReplaceGitAtGithub(
      ReplacePrefix(
        ReplacePrefix(sourceUrl, StrScmPrefix, <<>>),
        StrGitPrefix, <<>>)),
    StrDotGit, <<>>)

\* a descriptor is modelled by what valueWithPath gives for 'url' and for
\* 'scm.url' (undefined when the element is missing); lines 133-149
EmptyUrls == [homepage |-> Undefined, sourceUrl |-> Undefined]

UrlsFromPom(result, pom) ==
  [homepage |-> IF Truthy(pom.url) THEN pom.url ELSE result.homepage,
   sourceUrl |-> IF Truthy(pom.scmUrl) THEN NormalizeSourceUrl(pom.scmUrl)
                 ELSE result.sourceUrl]

(***************************************************************************)
(* State.  One call of a public method of the datasource runs at a time;   *)
(* it advances from one await to the next, so a step of the model is one   *)
(* response arriving and the code that runs up to the next request.        *)
(***************************************************************************)
VARIABLES
  entry,            \* the method that was called
  config,           \* getReleases: its GetReleasesConfig
  pc,               \* "called", "awaitRoot", "awaitSubdir", "awaitPom",
                    \* "awaitFallback", "done" (returned) or "threw"
  idx,              \* getReleases: idx of the loop over searchRoots
  searchRoots,      \* getReleases: searchRoots
  searchRoot,       \* searchRoot of the running method
  artifact,         \* artifact
  scalaVersion,     \* scalaVersion
  accepted,         \* getArtifactSubdirs: artifactSubdirs as assigned at line 46
  artifactSubdirs,  \* artifactSubdirs / artifactDirs
  releases,         \* getPackageReleases: releases
  subIdx,           \* getPackageReleases: subdirectories visited so far
  versions,         \* getReleases: versions
  latestVersion,    \* latestVersion / version
  dirIdx,           \* getUrls: artifactDirs visited so far
  pomIdx,           \* getUrls: pomFileNames tried in the current artifactDir
  urls,             \* getUrls: result
  ret,              \* the value the called method returned
  inflight,         \* the requests awaiting their response
  fetched,          \* every request issued, in order
  answered,         \* the response to each request that has returned, in order
  rootRes,          \* the response to the root listing of the current root
  seen,             \* the responses to the subdirectory listings of the current root
  pomRes,           \* the responses to the descriptor requests of the current root
  tried,            \* getReleases: versions of each root already left behind
  fallbackArgs,     \* the argument of each call of super.getReleases
  fallbackRes,      \* what super.getReleases returned
  calls             \* concurrent calls of getReleases: the locals of each

\* the locals of the one call the variables above describe
locals ==
  << entry, config, pc, idx, searchRoots, searchRoot, artifact, scalaVersion,
     accepted, artifactSubdirs, releases, subIdx, versions, latestVersion,
     dirIdx, pomIdx, urls, ret, inflight, fetched, answered, rootRes, seen,
     pomRes, tried, fallbackArgs, fallbackRes >>

vars == << locals, calls >>

\* the state as a record, and the assignment of a record to the state; a
\* step of the one call leaves the concurrent calls alone
Cur ==
  [entry |-> entry, config |-> config, pc |-> pc, idx |-> idx,
   searchRoots |-> searchRoots, searchRoot |-> searchRoot,
   artifact |-> artifact, scalaVersion |-> scalaVersion,
   accepted |-> accepted, artifactSubdirs |-> artifactSubdirs,
   releases |-> releases, subIdx |-> subIdx, versions |-> versions,
   latestVersion |-> latestVersion, dirIdx |-> dirIdx, pomIdx |-> pomIdx,
   urls |-> urls, ret |-> ret, inflight |-> inflight, fetched |-> fetched,
   answered |-> answered,
   rootRes |-> rootRes, seen |-> seen, pomRes |-> pomRes, tried |-> tried,
   fallbackArgs |-> fallbackArgs, fallbackRes |-> fallbackRes]

Apply(s) ==
  /\ entry' = s.entry /\ config' = s.config /\ pc' = s.pc /\ idx' = s.idx
  /\ searchRoots' = s.searchRoots /\ searchRoot' = s.searchRoot
  /\ artifact' = s.artifact /\ scalaVersion' = s.scalaVersion
  /\ accepted' = s.accepted /\ artifactSubdirs' = s.artifactSubdirs
  /\ releases' = s.releases /\ subIdx' = s.subIdx /\ versions' = s.versions
  /\ latestVersion' = s.latestVersion /\ dirIdx' = s.dirIdx /\ pomIdx' = s.pomIdx
  /\ urls' = s.urls /\ ret' = s.ret /\ inflight' = s.inflight
  /\ fetched' = s.fetched /\ answered' = s.answered
  /\ rootRes' = s.rootRes /\ seen' = s.seen
  /\ pomRes' = s.pomRes /\ tried' = s.tried
  /\ fallbackArgs' = s.fallbackArgs /\ fallbackRes' = s.fallbackRes
  /\ calls' = calls

\* the initial state is s
Start(s) ==
  /\ entry = s.entry /\ config = s.config /\ pc = s.pc /\ idx = s.idx
  /\ searchRoots = s.searchRoots /\ searchRoot = s.searchRoot
  /\ artifact = s.artifact /\ scalaVersion = s.scalaVersion
  /\ accepted = s.accepted /\ artifactSubdirs = s.artifactSubdirs
  /\ releases = s.releases /\ subIdx = s.subIdx /\ versions = s.versions
  /\ latestVersion = s.latestVersion /\ dirIdx = s.dirIdx /\ pomIdx = s.pomIdx
  /\ urls = s.urls /\ ret = s.ret /\ inflight = s.inflight
  /\ fetched = s.fetched /\ answered = s.answered
  /\ rootRes = s.rootRes /\ seen = s.seen
  /\ pomRes = s.pomRes /\ tried = s.tried
  /\ fallbackArgs = s.fallbackArgs /\ fallbackRes = s.fallbackRes

\* the state before the call, for a method and its arguments
Fresh(method, cfg, root, art, scalaV, subdirs, version) ==
  [entry |-> method, config |-> cfg, pc |-> "called", idx |-> 0,
   searchRoots |-> <<>>, searchRoot |-> root, artifact |-> art,
   scalaVersion |-> scalaV, accepted |-> NullList, artifactSubdirs |-> subdirs,
   releases |-> <<>>, subIdx |-> 0, versions |-> NullList,
   latestVersion |-> version, dirIdx |-> 0, pomIdx |-> 0, urls |-> EmptyUrls,
   ret |-> NullResult, inflight |-> {}, fetched |-> <<>>, answered |-> <<>>,
   rootRes |-> NoContent,
   seen |-> <<>>, pomRes |-> <<>>, tried |-> <<>>, fallbackArgs |-> <<>>,
   fallbackRes |-> NullResult]

(***************************************************************************)
(* Requests and returns                                                    *)
(***************************************************************************)
\* await downloadHttpProtocol(this.http, url), or await super.getReleases
Issue(s, kind, url, waitAt) ==
  [s EXCEPT !.pc = waitAt,
            !.inflight = @ \cup {[kind |-> kind, url |-> url]},
            !.fetched = Append(@, [kind |-> kind, url |-> url, root |-> s.idx])]

\* the awaited request, the last one issued, is answered res
Received(s, res) ==
  LET last == s.fetched[Len(s.fetched)]
  IN [s EXCEPT !.inflight = @ \ {[kind |-> last.kind, url |-> last.url]},
               !.answered = Append(@, res)]

\* the called method returns value
Return(s, value) == [s EXCEPT !.pc = "done", !.ret = value]

\* an exception leaves the called method
Throw(s) == [s EXCEPT !.pc = "threw"]

(***************************************************************************)
(* getReleases, lines 157-219, and the methods it awaits.  Each operator   *)
(* takes the state at one point of the code and gives the state at the     *)
(* next await, return or throw; they are listed callee first.              *)
(***************************************************************************)
\* faulty variant: the dot-joined root pushed first
SearchRootsSwapped(repoRoot, groupIdSplit) ==
  << repoRoot \o Join(groupIdSplit, "."), repoRoot \o Join(groupIdSplit, "/") >>

\* searchRoots, lines 172-175
SearchRootsOf(repoRoot, groupIdSplit) ==
  << repoRoot \o Join(groupIdSplit, "/"), repoRoot \o Join(groupIdSplit, ".") >>

\* faulty variant: the loop stops one root early
MoreRootsOffByOne(i, roots) == i < Len(roots) - 1

\* the loop condition, line 177
MoreRoots(i, roots) == i < Len(roots)

\* faulty variant: the result of a root with versions is not returned
VersionsFoundNever(vs) == FALSE

\* if (versions), line 198
VersionsFound(vs) == vs # NullList

\* faulty variant: dependencyUrl is the first search root, whichever root gave the versions
ReleaseResultOfFirstRoot(u, dependencyUrl, vs) ==
  [homepage |-> u.homepage, sourceUrl |-> u.sourceUrl,
   dependencyUrl |-> searchRoots[1],
   releases |-> [i \in 1..Len(vs) |-> [version |-> vs[i]]]]

\* the ReleaseResult of lines 199-203
ReleaseResultOf(u, dependencyUrl, vs) ==
  [homepage |-> u.homepage, sourceUrl |-> u.sourceUrl,
   dependencyUrl |-> dependencyUrl,
   releases |-> [i \in 1..Len(vs) |-> [version |-> vs[i]]]]

\* the argument of super.getReleases, line 210
FallbackConfig(cfg) == cfg

\* lines 211-218
FallbackResult(mavenReleaseResult) ==
  IF mavenReleaseResult # NullResult THEN mavenReleaseResult ELSE NullResult

\* getArtifactSubdirs up to its await, lines 41-42
GetArtifactSubdirsCall(s) ==
  Issue(s, "root", EnsureTrailingSlash(s.searchRoot), "awaitRoot")

\* the head of the loop over searchRoots, lines 177-183, and what follows
\* the loop up to the await of line 210
IterateRoot(s) ==
  IF MoreRoots(s.idx, s.searchRoots)
  THEN GetArtifactSubdirsCall(
         [s EXCEPT !.searchRoot = s.searchRoots[s.idx + 1],
                   !.accepted = NullList, !.artifactSubdirs = NullList,
                   !.releases = <<>>, !.subIdx = 0, !.versions = NullList,
                   !.latestVersion = Null, !.dirIdx = 0, !.pomIdx = 0,
                   !.urls = EmptyUrls, !.rootRes = NoContent, !.seen = <<>>,
                   !.pomRes = <<>>])
  ELSE Issue([s EXCEPT !.fallbackArgs = Append(@, FallbackConfig(s.config))],
             "fallback", <<>>, "awaitFallback")

\* getUrls returns u; in getReleases, lines 195-205
UrlsReturn(s, u) ==
  IF s.entry = "getUrls" THEN Return(s, u)
  ELSE IF VersionsFound(s.versions)
  THEN Return([s EXCEPT !.urls = u], ReleaseResultOf(u, s.searchRoot, s.versions))
  ELSE IterateRoot([s EXCEPT !.urls = u, !.idx = s.idx + 1,
                             !.tried = Append(@, s.versions)])

\* the loops of getUrls at the next descriptor, lines 121-130, 154
UrlsLoop(s) ==
  IF s.dirIdx < Len(s.artifactSubdirs)
  THEN LET artifactDir == s.artifactSubdirs[s.dirIdx + 1]
           pomFileName == PomFileNames(artifactDir, s.latestVersion)[s.pomIdx + 1]
       IN Issue(s, "pom",
                PomUrl(s.searchRoot, artifactDir, s.latestVersion, pomFileName),
                "awaitPom")
  ELSE UrlsReturn(s, s.urls)

\* faulty variant: the descriptors are scanned without a version
GetUrlsCallNoVersionCheck(s) ==
  LET s1 == [s EXCEPT !.urls = EmptyUrls, !.dirIdx = 0, !.pomIdx = 0, !.pomRes = <<>>]
  IN IF s.artifactSubdirs = NullList \/ Len(s.artifactSubdirs) = 0
     THEN UrlsReturn(s1, s1.urls)
     ELSE UrlsLoop(s1)

\* getUrls up to its first await, lines 111-121
GetUrlsCall(s) ==
  LET s1 == [s EXCEPT !.urls = EmptyUrls, !.dirIdx = 0, !.pomIdx = 0, !.pomRes = <<>>]
  IN IF s.artifactSubdirs = NullList \/ Len(s.artifactSubdirs) = 0
     THEN UrlsReturn(s1, s1.urls)
     ELSE IF ~Truthy(s.latestVersion)
     THEN UrlsReturn(s1, s1.urls)
     ELSE UrlsLoop(s1)

\* faulty variant: the scan of the file names starts over after the last one
NextPomRepeats(d, p) == IF p + 1 < 2 THEN <<d, p + 1>> ELSE <<d, 0>>

\* the position after pomFileNames[pomIdx] of artifactDirs[dirIdx], lines 121, 128
NextPom(d, p) == IF p + 1 < 2 THEN <<d, p + 1>> ELSE <<d + 1, 0>>

\* faulty variant: a descriptor that is not there is an error
PomReturnedAbsentThrows(s, res) ==
  LET s1 == [Received(s, res) EXCEPT !.pomRes = Append(@, res)]
  IN IF HasContent(res)
     THEN UrlsReturn([s1 EXCEPT !.urls = UrlsFromPom(s1.urls, res.pom)],
                     UrlsFromPom(s1.urls, res.pom))
     ELSE Throw(s1)

\* a descriptor request answers res, lines 131-152
PomReturned(s, res) ==
  LET s1 == [Received(s, res) EXCEPT !.pomRes = Append(@, res)]
  IN IF HasContent(res)
     THEN UrlsReturn([s1 EXCEPT !.urls = UrlsFromPom(s1.urls, res.pom)],
                     UrlsFromPom(s1.urls, res.pom))
     ELSE UrlsLoop([s1 EXCEPT !.dirIdx = NextPom(s.dirIdx, s.pomIdx)[1],
                              !.pomIdx = NextPom(s.dirIdx, s.pomIdx)[2]])

\* faulty variant: the first version of the list is taken for the latest
PackageReleasesReturnFirstVersion(s, vs) ==
  IF s.entry = "getPackageReleases" THEN Return(s, vs)
  ELSE GetUrlsCall([s EXCEPT !.versions = vs,
                             !.latestVersion = IF vs # NullList THEN vs[1] ELSE Null])

\* getPackageReleases returns vs; in getReleases, lines 184-193
PackageReleasesReturn(s, vs) ==
  IF s.entry = "getPackageReleases" THEN Return(s, vs)
  ELSE GetUrlsCall([s EXCEPT !.versions = vs, !.latestVersion = GetLatestVersion(vs)])

\* the url of the listing of a subdirectory, line 81
SubdirUrl(root, searchSubdir) == EnsureTrailingSlash(root \o <<"/">> \o searchSubdir)

\* faulty variant: the listings of two subdirectories are requested at once
PackageReleasesLoopFanOut(s) ==
  IF s.subIdx + 1 < Len(s.artifactSubdirs)
  THEN Issue(Issue(s, "subdir", SubdirUrl(s.searchRoot, s.artifactSubdirs[s.subIdx + 1]),
                   "awaitSubdir"),
             "subdir", SubdirUrl(s.searchRoot, s.artifactSubdirs[s.subIdx + 2]), "awaitSubdir")
  ELSE IF s.subIdx < Len(s.artifactSubdirs)
  THEN Issue(s, "subdir", SubdirUrl(s.searchRoot, s.artifactSubdirs[s.subIdx + 1]),
             "awaitSubdir")
  ELSE PackageReleasesReturn(s, MergedReleases(s.releases))

\* the loop of getPackageReleases at the next subdirectory, lines 80-82, 98-103
PackageReleasesLoop(s) ==
  IF s.subIdx < Len(s.artifactSubdirs)
  THEN Issue(s, "subdir", SubdirUrl(s.searchRoot, s.artifactSubdirs[s.subIdx + 1]),
             "awaitSubdir")
  ELSE PackageReleasesReturn(s, MergedReleases(s.releases))

\* getPackageReleases up to its first await, lines 78-80
GetPackageReleasesCall(s) ==
  IF s.artifactSubdirs # NullList
  THEN PackageReleasesLoop([s EXCEPT !.releases = <<>>, !.subIdx = 0, !.seen = <<>>])
  ELSE PackageReleasesReturn(s, NullList)

\* releases after the listing of searchSubdir answered res, lines 83-96
ReleasesAfter(rels, root, searchSubdir, res) ==
  IF HasContent(res)
  THEN rels \o SubdirReleases(res.links, SubdirUrl(root, searchSubdir))
  ELSE rels

\* faulty variant: a subdirectory without a listing ends the loop
SubdirListingReturnedStopsOnAbsent(s, res) ==
  IF HasContent(res)
  THEN PackageReleasesLoop(
         [Received(s, res) EXCEPT
            !.releases = ReleasesAfter(s.releases, s.searchRoot,
                                       s.artifactSubdirs[s.subIdx + 1], res),
            !.subIdx = s.subIdx + 1,
            !.seen = Append(@, res)])
  ELSE PackageReleasesReturn(
         [Received(s, res) EXCEPT !.subIdx = s.subIdx + 1, !.seen = Append(@, res)],
         MergedReleases(s.releases))

\* a subdirectory listing answers res, lines 83-97
SubdirListingReturned(s, res) ==
  PackageReleasesLoop(
    [Received(s, res) EXCEPT
       !.releases = ReleasesAfter(s.releases, s.searchRoot,
                                  s.artifactSubdirs[s.subIdx + 1], res),
       !.subIdx = s.subIdx + 1,
       !.seen = Append(@, res)])

\* the root listing answers res, lines 43-71; in getReleases, line 184
RootListingReturned(s, res) ==
  LET pkgUrl == EnsureTrailingSlash(s.searchRoot)
      first == IF HasContent(res)
               THEN AcceptedSubdirs(res.links, pkgUrl, s.artifact)
               ELSE NullList
      subdirs == IF HasContent(res)
                 THEN NarrowToScalaVersion(first, s.artifact, s.scalaVersion)
                 ELSE NullList
      s1 == [Received(s, res) EXCEPT !.rootRes = res, !.accepted = first,
                                !.artifactSubdirs = subdirs]
  IN IF s.entry = "getArtifactSubdirs" THEN Return(s1, subdirs)
     ELSE GetPackageReleasesCall(s1)

\* super.getReleases answers r, lines 210-218
FallbackReturned(s, r) ==
  Return([Received(s, r) EXCEPT !.fallbackRes = r], FallbackResult(r))

\* faulty variant: without a registryUrl the call goes to the fallback
GetReleasesCallFallsBack(s) ==
  IF ~Truthy(s.config.registryUrl)
  THEN Issue([s EXCEPT !.fallbackArgs = Append(@, FallbackConfig(s.config))],
             "fallback", <<>>, "awaitFallback")
  ELSE LET parts == Split(s.config.packageName, ":")
           groupId == ElementOrUndefined(parts, 1)
           artifactId == ElementOrUndefined(parts, 2)
       IN IF artifactId = Undefined THEN Throw(s)
          ELSE LET groupIdSplit == Split(groupId, ".")
                   artifactIdSplit == Split(artifactId, "_")
                   repoRoot == EnsureTrailingSlash(s.config.registryUrl)
               IN IterateRoot(
                    [s EXCEPT !.artifact = ElementOrUndefined(artifactIdSplit, 1),
                              !.scalaVersion = ElementOrUndefined(artifactIdSplit, 2),
                              !.searchRoots = SearchRootsOf(repoRoot, groupIdSplit),
                              !.idx = 0])

\* getReleases up to its first await, lines 160-178
GetReleasesCall(s) ==
  IF ~Truthy(s.config.registryUrl) THEN Return(s, NullResult)
  ELSE LET parts == Split(s.config.packageName, ":")
           groupId == ElementOrUndefined(parts, 1)
           artifactId == ElementOrUndefined(parts, 2)
       IN IF artifactId = Undefined THEN Throw(s)  \* undefined.split
          ELSE LET groupIdSplit == Split(groupId, ".")
                   artifactIdSplit == Split(artifactId, "_")
                   repoRoot == EnsureTrailingSlash(s.config.registryUrl)
               IN IterateRoot(
                    [s EXCEPT !.artifact = ElementOrUndefined(artifactIdSplit, 1),
                              !.scalaVersion = ElementOrUndefined(artifactIdSplit, 2),
                              !.searchRoots = SearchRootsOf(repoRoot, groupIdSplit),
                              !.idx = 0])

(***************************************************************************)
(* Inputs: the calls made and what the network may answer                  *)
(***************************************************************************)
Origin == "https://repo"
Foo == <<"f", "o", "o">>
Foo_2_12 == <<"f", "o", "o", "_", "2", ".", "1", "2">>
Foo_2_13 == <<"f", "o", "o", "_", "2", ".", "1", "3">>
Foo_native == <<"f", "o", "o", "_", "n", "a", "t", "i", "v", "e", "0", ".", "4">>
Foo_sjs == <<"f", "o", "o", "_", "s", "j", "s", "1", "_", "2", ".", "1", "2">>
Foobar == <<"f", "o", "o", "b", "a", "r">>
Bar == <<"b", "a", "r">>
V2_12 == <<"2", ".", "1", "2">>
Native04 == <<"n", "a", "t", "i", "v", "e", "0", ".", "4">>
Sjs1 == <<"s", "j", "s", "1">>
V1_2 == <<"1", ".", "2">>
V1_10 == <<"1", ".", "1", "0">>
V1_3 == <<"1", ".", "3">>
V1_2_0 == <<"1", ".", "2", ".", "0">>
VHidden == <<".", "h", "i", "d", "d", "e", "n">>
VDotDot == <<".", ".">>
Home == <<"h", ":", "/", "/", "f", "o", "o">>
ScmFull ==
  <<"s", "c", "m", ":", "g", "i", "t", ":", "g", "i", "t", "@", "g", "i", "t", "h", "u", "b",
    ".", "c", "o", "m", ":", "o", "r", "g", "/", "r", "e", "p", "o", ".", "g", "i", "t">>
ScmGitScm == <<"g", "i", "t", ":", "s", "c", "m", ":", "x">>
ScmTwice == <<"s", "c", "m", ":", "s", "c", "m", ":", "x", ".", "g", "i", "t", ".", "g", "i", "t">>
ScmHostAlias ==
  <<"g", "i", "t", "@", "g", "i", "t", "h", "u", "b", "-", "c", "o", "m", ":", "o", "/", "r">>
ScmHttps ==
  <<"h", "t", "t", "p", "s", ":", "/", "/", "g", "i", "t", "h", "u", "b", ".", "c", "o", "m",
    "/", "o", "/", "r">>
ScmSsh ==
  <<"g", "i", "t", "@", "g", "i", "t", "h", "u", "b", ".", "c", "o", "m", ":", "o", "/", "r",
    ".", "g", "i", "t">>
ScmInner == <<"x", ".", "g", "i", "t", "s", "c", "m", ":">>

\* registry urls, without and with the trailing slash
RegistryBare == <<Origin>>
RegistrySlash == <<Origin, "/">>
\* the search roots of group o.e under them
RootSlashJoined == <<Origin, "/", "o", "/", "e">>
RootDotJoined == <<Origin, "/", "o", ".", "e">>
\* package names: group o.e or o, artifact foo with and without a suffix
PkgSuffixed == <<"o", ".", "e", ":">> \o Foo_2_12
PkgPlain == <<"o", ".", "e", ":">> \o Foo
PkgOneSegment == <<"o", ":">> \o Foo_2_12
PkgNoColon == Foo

SeqsUpTo(S, n) == UNION {[1..k -> S] : k \in 0..n}

Page(links) == [ok |-> TRUE, links |-> links]
Descriptor(pom) == [ok |-> TRUE, pom |-> pom]

\* bounds: the number of links of a page, and how many of the listed pages
\* and scm urls the network may answer with
MaxLinks == 2
RootPageCount == 5
SubdirPageCount == 5
ScmUrlCount == 6

RootPageAt(i) ==
  CASE i = 1 -> <<Bar>>
    [] i = 2 -> <<Foo>>
    [] i = 3 -> <<Foo_2_12, Foo, Foo_native>>
    [] i = 4 -> <<Pathname(RootSlashJoined) \o <<"/">> \o Foo_2_13, Foo, Foo_sjs, Foo>>
    [] i = 5 -> <<Foo_2_13, Foo_2_12>>
    [] OTHER -> <<>>

SubdirPageAt(i) ==
  CASE i = 1 -> <<VHidden>>
    [] i = 2 -> <<V1_2>>
    [] i = 3 -> <<V1_10, VDotDot, V1_2>>
    [] i = 4 -> <<V1_3, V1_2_0>>
    [] i = 5 -> <<V1_2, V1_2_0>>
    [] OTHER -> <<>>

ScmUrlAt(i) ==
  CASE i = 1 -> ScmFull
    [] i = 2 -> ScmGitScm
    [] i = 3 -> ScmTwice
    [] i = 4 -> ScmHostAlias
    [] i = 5 -> ScmHttps
    [] i = 6 -> ScmSsh
    [] OTHER -> ScmInner

\* hrefs of a root listing, the last one absolute
RootHrefs ==
  {Foo, Foo \o <<"_">>, Foo_2_12, Foo_native, Foo \o <<"_">> \o Sjs1, Foobar,
   Pathname(RootSlashJoined) \o <<"/">> \o Foo_2_12}

\* hrefs of a subdirectory listing, the last one absolute
VersionHrefs ==
  {V1_2, V1_10, V1_2_0, VHidden,
   Pathname(RootSlashJoined) \o <<"/">> \o Foo \o <<"/">> \o V1_3}

\* what a root listing may answer
RootResponses ==
  {NoContent} \cup
  IF entry = "getArtifactSubdirs"
  THEN {Page(l) : l \in SeqsUpTo(RootHrefs, MaxLinks)}
  ELSE {Page(RootPageAt(i)) : i \in 1..RootPageCount}

\* what a subdirectory listing may answer
SubdirResponses ==
  {NoContent} \cup
  IF entry = "getPackageReleases"
  THEN {Page(l) : l \in SeqsUpTo(VersionHrefs, MaxLinks)}
  ELSE {Page(SubdirPageAt(i)) : i \in 1..SubdirPageCount}

\* what a descriptor request may answer
ScmUrls == IF entry = "getUrls" THEN {ScmUrlAt(i) : i \in 1..ScmUrlCount} ELSE {ScmFull}

PomResponses ==
  {NoContent} \cup
  {Descriptor([url |-> u, scmUrl |-> sc]) :
     u \in {Undefined, Home}, sc \in {Undefined} \cup ScmUrls}

\* what super.getReleases may answer
MavenResult ==
  [homepage |-> Undefined, sourceUrl |-> Undefined,
   dependencyUrl |-> RootSlashJoined \o <<"/">> \o Foo,
   releases |-> <<[version |-> V1_3]>>]

FallbackResponses == {NullResult, MavenResult}

Configs ==
  {[packageName |-> PkgSuffixed, registryUrl |-> RegistryBare],
   [packageName |-> PkgPlain, registryUrl |-> RegistrySlash],
   [packageName |-> PkgOneSegment, registryUrl |-> RegistryBare],
   [packageName |-> PkgPlain, registryUrl |-> Undefined],
   [packageName |-> PkgNoColon, registryUrl |-> Undefined],
   [packageName |-> PkgNoColon, registryUrl |-> RegistryBare]}

NoConfig == [packageName |-> <<>>, registryUrl |-> Undefined]

(***************************************************************************)
(* Specifications                                                          *)
(***************************************************************************)
\* getReleases(config)
Init ==
  \E cfg \in Configs :
    /\ Start(Fresh("getReleases", cfg, <<>>, <<>>, Undefined, NullList, Null))
    /\ calls = <<>>

\* getArtifactSubdirs(searchRoot, artifact, scalaVersion)
InitSubdirs ==
  \E root \in {RootSlashJoined, RootDotJoined},
     scalaV \in {Undefined, <<>>, V2_12, Native04, Sjs1} :
    /\ Start(Fresh("getArtifactSubdirs", NoConfig, root, Foo, scalaV, NullList, Null))
    /\ calls = <<>>

\* getPackageReleases(searchRoot, artifactSubdirs)
InitPackageReleases ==
  \E subdirs \in {NullList, <<>>, <<Foo>>, <<Foo, Foo_2_12>>} :
    /\ Start(Fresh("getPackageReleases", NoConfig, RootSlashJoined, <<>>, Undefined,
                   subdirs, Null))
    /\ calls = <<>>

\* getUrls(searchRoot, artifactDirs, version)
InitUrls ==
  \E dirs \in {NullList, <<>>, <<Foo_2_12>>, <<Foo, Foo_2_12>>, <<Foo_sjs, Foo_2_12>>},
     version \in {Null, <<>>, V1_2} :
    /\ Start(Fresh("getUrls", NoConfig, RootSlashJoined, <<>>, Undefined, dirs, version))
    /\ calls = <<>>

GetReleases ==
  /\ pc = "called" /\ entry = "getReleases"
  /\ Apply(GetReleasesCall(Cur))

GetArtifactSubdirs ==
  /\ pc = "called" /\ entry = "getArtifactSubdirs"
  /\ Apply(GetArtifactSubdirsCall(Cur))

GetPackageReleases ==
  /\ pc = "called" /\ entry = "getPackageReleases"
  /\ Apply(GetPackageReleasesCall(Cur))

GetUrls ==
  /\ pc = "called" /\ entry = "getUrls"
  /\ Apply(GetUrlsCall(Cur))

RootListingReturns ==
  /\ pc = "awaitRoot"
  /\ \E res \in RootResponses : Apply(RootListingReturned(Cur, res))

SubdirListingReturns ==
  /\ pc = "awaitSubdir"
  /\ \E res \in SubdirResponses : Apply(SubdirListingReturned(Cur, res))

PomReturns ==
  /\ pc = "awaitPom"
  /\ \E res \in PomResponses : Apply(PomReturned(Cur, res))

FallbackReturns ==
  /\ pc = "awaitFallback"
  /\ \E r \in FallbackResponses : Apply(FallbackReturned(Cur, r))

Next ==
  \/ GetReleases
  \/ RootListingReturns
  \/ SubdirListingReturns
  \/ PomReturns
  \/ FallbackReturns

NextSubdirs == GetArtifactSubdirs \/ RootListingReturns

NextPackageReleases == GetPackageReleases \/ SubdirListingReturns

NextUrls == GetUrls \/ PomReturns

Spec == Init /\ [][Next]_vars

SpecSubdirs == InitSubdirs /\ [][NextSubdirs]_vars

SpecPackageReleases == InitPackageReleases /\ [][NextPackageReleases]_vars

SpecUrls == InitUrls /\ [][NextUrls]_vars

(***************************************************************************)
(* Two calls of getReleases on one datasource, their steps interleaved at  *)
(* the awaits                                                              *)
(***************************************************************************)
\* faulty variant: releases is a field of the datasource, not a local
SetLocalsSharedReleases(all, c, s) ==
  [d \in DOMAIN all |-> IF d = c THEN s ELSE [all[d] EXCEPT !.releases = s.releases]]

\* a step of call c: everything the methods assign is declared in them with
\* const or let (lines 41-47, 79-87, 111-140, 160-195), so the step
\* replaces the locals of c and nothing else
SetLocals(all, c, s) == [all EXCEPT ![c] = s]

\* the packages of the two calls: under the same roots, and under different ones
ConcurrentPairs ==
  {<<[packageName |-> PkgSuffixed, registryUrl |-> RegistryBare],
     [packageName |-> PkgPlain, registryUrl |-> RegistrySlash]>>,
   <<[packageName |-> PkgOneSegment, registryUrl |-> RegistryBare],
     [packageName |-> PkgPlain, registryUrl |-> RegistryBare]>>}

ConcurrentRootResponses == {NoContent, Page(RootPageAt(3))}
ConcurrentSubdirResponses == {NoContent, Page(SubdirPageAt(2)), Page(SubdirPageAt(4))}
ConcurrentPomResponses == {NoContent, Descriptor([url |-> Home, scmUrl |-> ScmFull])}

\* the request call c waits for
Awaited(c) == calls[c].fetched[Len(calls[c].fetched)]

\* a URL is answered the same way whichever call asks, and whenever
SameOutcome(c, res) ==
  \A d \in DOMAIN calls :
    \A k \in 1..Len(calls[d].answered) :
      (calls[d].fetched[k].kind = Awaited(c).kind /\ calls[d].fetched[k].url = Awaited(c).url)
        => calls[d].answered[k] = res

InitConcurrent ==
  /\ Start(Fresh("none", NoConfig, <<>>, <<>>, Undefined, NullList, Null))
  /\ \E pair \in ConcurrentPairs :
       calls = [c \in 1..2 |->
                  Fresh("getReleases", pair[c], <<>>, <<>>, Undefined, NullList, Null)]

CallGetReleases(c) ==
  /\ calls[c].pc = "called"
  /\ calls' = SetLocals(calls, c, GetReleasesCall(calls[c]))
  /\ UNCHANGED locals

CallRootListingReturns(c) ==
  /\ calls[c].pc = "awaitRoot"
  /\ \E res \in ConcurrentRootResponses :
       /\ SameOutcome(c, res)
       /\ calls' = SetLocals(calls, c, RootListingReturned(calls[c], res))
  /\ UNCHANGED locals

CallSubdirListingReturns(c) ==
  /\ calls[c].pc = "awaitSubdir"
  /\ \E res \in ConcurrentSubdirResponses :
       /\ SameOutcome(c, res)
       /\ calls' = SetLocals(calls, c, SubdirListingReturned(calls[c], res))
  /\ UNCHANGED locals

CallPomReturns(c) ==
  /\ calls[c].pc = "awaitPom"
  /\ \E res \in ConcurrentPomResponses :
       /\ SameOutcome(c, res)
       /\ calls' = SetLocals(calls, c, PomReturned(calls[c], res))
  /\ UNCHANGED locals

CallFallbackReturns(c) ==
  /\ calls[c].pc = "awaitFallback"
  /\ \E r \in FallbackResponses :
       calls' = SetLocals(calls, c, FallbackReturned(calls[c], r))
  /\ UNCHANGED locals

NextConcurrent ==
  \/ \E c \in DOMAIN calls : CallGetReleases(c)
  \/ \E c \in DOMAIN calls : CallRootListingReturns(c)
  \/ \E c \in DOMAIN calls : CallSubdirListingReturns(c)
  \/ \E c \in DOMAIN calls : CallPomReturns(c)
  \/ \E c \in DOMAIN calls : CallFallbackReturns(c)

SpecConcurrent == InitConcurrent /\ [][NextConcurrent]_vars

(***************************************************************************)
(* Properties                                                              *)
(***************************************************************************)
\* what the claims say of a run, computed from the requests and responses
BaseUrl == IF config.registryUrl[Len(config.registryUrl)] = "/"
           THEN config.registryUrl ELSE config.registryUrl \o <<"/">>
GroupSegments == Split(Split(config.packageName, ":")[1], ".")
SlashJoinedRoot == BaseUrl \o Join(GroupSegments, "/")
DotJoinedRoot == BaseUrl \o Join(GroupSegments, ".")

\* getReleases was called with a registry url and a coordinate, and got
\* past its synchronous head
Crawling ==
  /\ entry = "getReleases"
  /\ pc \notin {"called", "threw"}
  /\ config.registryUrl \notin {Undefined, Null, <<>>}

\* the path of the listing page at root/subdir/
ListingPath(root, subdir) == Tail(root) \o <<"/">> \o subdir \o <<"/">>

\* the entries of the listing of subdir under root answered by res: its
\* hrefs relative to the page
Entries(root, subdir, res) ==
  IF res.ok
  THEN {ReplaceFirst(res.links[i], ListingPath(root, subdir), <<>>) :
          i \in 1..Len(res.links)}
  ELSE {}

\* the entries without a leading dot in the listings fetched under root
VisibleEntries(root) ==
  UNION {{e \in Entries(root, artifactSubdirs[i], seen[i]) : e = <<>> \/ e[1] # "."} :
           i \in 1..Len(seen)}

VersionsOf(result) == {result.releases[i].version : i \in 1..Len(result.releases)}

\* C1: once getPackageReleases has reported versions for the root at idx,
\* getReleases stays at that root, issues nothing but descriptor requests
\* under it, never calls the fallback and returns a result built from that
\* root.
C1_Step ==
  versions # NullList =>
    /\ idx' = idx
    /\ versions' = versions
    /\ pc' \in {"awaitPom", "done"}
    /\ fallbackArgs' = <<>>
    /\ \A k \in (Len(fetched) + 1)..Len(fetched') :
         /\ fetched'[k].kind = "pom"
         /\ fetched'[k].root = idx
         /\ StartsWith(fetched'[k].url, searchRoots[idx + 1] \o <<"/">>)
    /\ pc' = "done" =>
         /\ ret' # NullResult
         /\ ret'.dependencyUrl = searchRoots[idx + 1]
         /\ ret'.releases = [i \in 1..Len(versions) |-> [version |-> versions[i]]]

C1_State ==
  (entry = "getReleases" /\ versions # NullList) =>
    /\ pc \in {"awaitPom", "done"}
    /\ fallbackArgs = <<>>
    /\ \A k \in 1..Len(fetched) : fetched[k].kind # "fallback" /\ fetched[k].root <= idx
    /\ pc = "done" => ret # NullResult /\ ret.dependencyUrl = searchRoots[idx + 1]

C1_FirstRootWithVersionsWins == [](C1_State) /\ [][C1_Step]_vars

C1_Witness ==
  /\ entry = "getReleases" /\ pc = "done" /\ idx = 0
  /\ versions # NullList /\ Len(versions) = 2
  /\ Len(pomRes) = 2
  /\ ret # NullResult /\ ret.dependencyUrl = RootSlashJoined

\* C2: super.getReleases is called at most once, only after both roots
\* were tried and each gave no versions, with the config of the call, and
\* what it answers is what getReleases returns.
C2_FallbackLastAndVerbatim ==
  entry = "getReleases" =>
    /\ Len(fallbackArgs) <= 1
    /\ Cardinality({k \in 1..Len(fetched) : fetched[k].kind = "fallback"}) = Len(fallbackArgs)
    /\ Len(fallbackArgs) = 1 =>
         /\ fallbackArgs[1] = config
         /\ fetched[Len(fetched)].kind = "fallback"
         /\ tried = <<NullList, NullList>>
         /\ \A i \in {0, 1} :
              \E k \in 1..Len(fetched) : fetched[k].kind = "root" /\ fetched[k].root = i
         /\ pc \in {"awaitFallback", "done"}
         /\ pc = "done" => ret = fallbackRes

C2_Witness ==
  /\ entry = "getReleases" /\ pc = "done"
  /\ Len(fallbackArgs) = 1
  /\ fallbackRes = MavenResult /\ ret = MavenResult
  /\ Len(fetched) > 3

\* C3: searchRoots is the slash-joined root then the dot-joined root; every
\* request is under the root of its turn, and a request of the second turn
\* comes only after the first root was tried and gave no versions.
C3_TwoRootsSlashThenDot ==
  Crawling =>
    /\ searchRoots = <<SlashJoinedRoot, DotJoinedRoot>>
    /\ (config.packageName = PkgSuffixed /\ config.registryUrl = RegistryBare)
         => searchRoots = <<RootSlashJoined, RootDotJoined>>
    /\ \A k \in 1..Len(fetched) :
         fetched[k].kind # "fallback" =>
           /\ fetched[k].root \in {0, 1}
           /\ StartsWith(fetched[k].url, searchRoots[fetched[k].root + 1] \o <<"/">>)
           /\ \A j \in 1..(k - 1) : fetched[j].root <= fetched[k].root
           /\ fetched[k].root = 1 =>
                /\ Len(tried) >= 1 /\ tried[1] = NullList
                /\ \E j \in 1..(k - 1) : fetched[j].kind = "root" /\ fetched[j].root = 0

C3_Witness ==
  /\ Crawling
  /\ searchRoots = <<RootSlashJoined, RootDotJoined>>
  /\ \E k \in 1..Len(fetched) : fetched[k].kind = "pom" /\ fetched[k].root = 1
  /\ \E k \in 1..Len(fetched) : fetched[k].kind = "subdir" /\ fetched[k].root = 0

\* C4: when the slash-joined root gave no versions and the dot-joined root
\* gave some, getReleases returns the versions listed under the dot-joined
\* root, with the dot-joined root as dependencyUrl and with the metadata of
\* the descriptor found under it, if any.
C4_SecondRootResult ==
  (Crawling /\ pc = "done" /\ tried = <<NullList>> /\ versions # NullList) =>
    /\ ret # NullResult
    /\ ret.dependencyUrl = DotJoinedRoot
    /\ VersionsOf(ret) = VisibleEntries(DotJoinedRoot)
    /\ Len(ret.releases) = Cardinality(VisibleEntries(DotJoinedRoot))
    /\ LET found == {k \in 1..Len(pomRes) : pomRes[k].ok}
           firstPom == Len(fetched) - Len(pomRes)
       IN /\ found = {} => ret.homepage = Undefined /\ ret.sourceUrl = Undefined
          /\ \A k \in found :
               /\ fetched[firstPom + k].root = 1
               /\ StartsWith(fetched[firstPom + k].url, DotJoinedRoot \o <<"/">>)
               /\ ret.homepage = pomRes[k].pom.url
               /\ (ret.sourceUrl = Undefined) <=> (pomRes[k].pom.scmUrl = Undefined)

C4_Witness ==
  /\ Crawling /\ pc = "done" /\ tried = <<NullList>> /\ versions # NullList
  /\ searchRoots[1] # searchRoots[2]
  /\ \E k \in 1..Len(fetched) : fetched[k].kind = "subdir" /\ fetched[k].root = 0
  /\ ret # NullResult /\ ret.dependencyUrl = RootDotJoined
  /\ ret.homepage = Home

\* getArtifactSubdirs returned for a root listing that was present
SubdirsListed ==
  /\ entry = "getArtifactSubdirs"
  /\ pc = "done"
  /\ rootRes.ok

\* the path segments of the root listing: its hrefs relative to the page
RootSegments ==
  {ReplaceFirst(rootRes.links[i], Tail(searchRoot) \o <<"/">>, <<>>) :
     i \in 1..Len(rootRes.links)}

IsCrossVariant(seg) ==
  \/ StartsWith(seg, artifact \o <<"_", "n", "a", "t", "i", "v", "e">>)
  \/ StartsWith(seg, artifact \o <<"_", "s", "j", "s">>)

NamesArtifact(seg) == seg = artifact \/ StartsWith(seg, artifact \o <<"_">>)

\* C5: a path segment of a present root listing is accepted exactly when it
\* does not start with <artifact>_native or <artifact>_sjs and is <artifact>
\* or starts with <artifact>_; no segment starting with <artifact>_native or
\* <artifact>_sjs is in the list before or after the narrowing, whatever
\* the suffix.
C5_AcceptedSegments ==
  SubdirsListed =>
    /\ \A seg \in RootSegments :
         (seg \in Range(accepted)) <=> (~IsCrossVariant(seg) /\ NamesArtifact(seg))
    /\ Range(accepted) \subseteq RootSegments
    /\ \A seg \in Range(accepted) \cup Range(ret) : ~IsCrossVariant(seg)

C5_Witness ==
  /\ SubdirsListed
  /\ scalaVersion = Native04
  /\ rootRes.links = <<Foo_native, Foo \o <<"_">> \o Sjs1>>
  /\ ret = <<>>

\* C6: with a non-empty suffix whose <artifact>_<suffix> is among the
\* accepted segments, getArtifactSubdirs returns that one segment; in every
\* other case it returns the accepted segments unchanged.
C6_Narrowing ==
  SubdirsListed =>
    LET supplied == scalaVersion \notin {Undefined, Null, <<>>}
        suffixed == artifact \o <<"_">> \o scalaVersion
    IN IF supplied /\ suffixed \in Range(accepted)
       THEN ret = <<suffixed>>
       ELSE ret = accepted

C6_Witness ==
  /\ SubdirsListed
  /\ scalaVersion = V2_12
  /\ accepted = <<Foo, Foo_2_12>>
  /\ ret = <<Foo_2_12>>

\* getPackageReleases returned
ReleasesReturned == entry = "getPackageReleases" /\ pc = "done"

\* C7: a list returned by getPackageReleases is non-empty, has no two equal
\* versions and ascends under the comparator; when no listing gave a
\* version, null is returned and not an empty list.
C7_SortedDistinctNonEmpty ==
  ReleasesReturned =>
    /\ ret # <<>>
    /\ (ret = NullList) <=> (artifactSubdirs = NullList \/ VisibleEntries(searchRoot) = {})
    /\ ret # NullList =>
         /\ Len(ret) > 0
         /\ \A i, j \in 1..Len(ret) : i < j => ret[i] # ret[j] /\ Compare(ret[i], ret[j]) <= 0

C7_Witness ==
  /\ ReleasesReturned
  /\ Len(seen) = 2
  /\ seen[1] = Page(<<V1_10, V1_2>>)
  /\ seen[2] = Page(<<V1_2_0, V1_2>>)
  /\ ret = <<V1_2, V1_2_0, V1_10>>

\* C8: the versions returned for a root are exactly the entries without a
\* leading dot of the listings fetched for its matched subdirectories.
C8_VisibleEntriesOnly ==
  ReleasesReturned =>
    LET returned == IF ret = NullList THEN {} ELSE Range(ret)
        listed == IF artifactSubdirs = NullList THEN {} ELSE VisibleEntries(searchRoot)
    IN /\ returned = listed
       /\ \A v \in returned : v = <<>> \/ v[1] # "."

C8_Witness ==
  /\ ReleasesReturned
  /\ Len(seen) = 2
  /\ seen[1] = Page(<<V1_2, VHidden>>)
  /\ seen[2] = Page(<<Pathname(RootSlashJoined) \o <<"/">> \o Foo \o <<"/">> \o V1_3, V1_10>>)
  /\ Len(ret) = 3

\* the text of s before its first underscore
BeforeUnderscore(s) ==
  LET at == {i \in 1..Len(s) : s[i] = "_"}
  IN IF at = {} THEN s ELSE SubSeq(s, 1, Min(at) - 1)

\* the k-th descriptor url of the scan the claim describes: subdirectories
\* in list order, <subdir>-<version>.pom before <artifact>-<version>.pom
ScanUrl(k) ==
  LET dir == artifactSubdirs[((k - 1) \div 2) + 1]
      name == IF (k - 1) % 2 = 0 THEN dir ELSE BeforeUnderscore(dir)
  IN searchRoot \o <<"/">> \o dir \o <<"/">> \o latestVersion \o <<"/">>
       \o name \o <<"-">> \o latestVersion \o <<".", "p", "o", "m">>

\* C9: the descriptor requests of getUrls follow the scan order, and the
\* first response with content is the last: getUrls returns on it, whatever
\* fields the descriptor has.
C9_ScanOrderAndFirstHit ==
  entry = "getUrls" =>
    /\ Len(pomRes) <= Len(fetched) /\ Len(fetched) <= Len(pomRes) + 1
    /\ fetched # <<>> => artifactSubdirs # NullList /\ Len(fetched) <= 2 * Len(artifactSubdirs)
    /\ \A k \in 1..Len(fetched) : fetched[k].kind = "pom" /\ fetched[k].url = ScanUrl(k)
    /\ \A k \in 1..Len(pomRes) :
         pomRes[k].ok => k = Len(fetched) /\ pc = "done" /\ inflight = {}
    /\ (pc = "done" /\ pomRes # <<>> /\ ~pomRes[Len(pomRes)].ok)
         => Len(pomRes) = 2 * Len(artifactSubdirs)

C9_Witness ==
  /\ entry = "getUrls" /\ pc = "done"
  /\ artifactSubdirs = <<Foo_sjs, Foo_2_12>>
  /\ Len(fetched) = 2
  /\ pomRes = <<NoContent, Descriptor([url |-> Undefined, scmUrl |-> Undefined])>>
  /\ ret = EmptyUrls

\* the rewrites as the claim lists them
ClaimedSourceUrl(scmUrl) ==
  LET a == ReplacePrefix(scmUrl, <<"s", "c", "m", ":">>, <<>>)
      b == ReplacePrefix(a, <<"g", "i", "t", ":">>, <<>>)
      c == ReplacePrefix(b,
             <<"g", "i", "t", "@", "g", "i", "t", "h", "u", "b", ".", "c", "o", "m", ":">>,
             <<"h", "t", "t", "p", "s", ":", "/", "/", "g", "i", "t", "h", "u", "b", ".",
               "c", "o", "m", "/">>)
  IN ReplaceSuffix(c, <<".", "g", "i", "t">>, <<>>)

\* getUrls returned on a descriptor that has scm.url
ScmUrlFound ==
  /\ entry = "getUrls" /\ pc = "done"
  /\ pomRes # <<>> /\ pomRes[Len(pomRes)].ok
  /\ pomRes[Len(pomRes)].pom.scmUrl # Undefined

\* C10: sourceUrl is scm.url with a leading scm: stripped, then a leading
\* git: stripped, then a leading git@github.com: rewritten to
\* https://github.com/, then a trailing .git stripped.
C10_SourceUrlNormalized ==
  ScmUrlFound => ret.sourceUrl = ClaimedSourceUrl(pomRes[Len(pomRes)].pom.scmUrl)

\* C10, the example of the claim: scm:git:git@github.com:org/repo.git
\* gives https://github.com/org/repo
C10_Example ==
  (ScmUrlFound /\ pomRes[Len(pomRes)].pom.scmUrl = ScmFull) =>
    ret.sourceUrl = <<"h", "t", "t", "p", "s", ":", "/", "/", "g", "i", "t", "h", "u", "b",
                      ".", "c", "o", "m", "/", "o", "r", "g", "/", "r", "e", "p", "o">>

\* the segments a root listing answered at position k of the log matches:
\* its hrefs relative to the page that name the artifact and are no
\* cross-compiled variant
MatchedSegments(k) ==
  IF answered[k].ok
  THEN {seg \in {ReplaceFirst(answered[k].links[j],
                              Tail(searchRoots[fetched[k].root + 1]) \o <<"/">>, <<>>) :
                   j \in 1..Len(answered[k].links)} :
          ~IsCrossVariant(seg) /\ NamesArtifact(seg)}
  ELSE {}

\* the requests issued in the turn of root i
RequestsOfRoot(i) == {j \in 1..Len(fetched) : fetched[j].root = i /\ fetched[j].kind # "fallback"}

\* C11: a root listing that is present and matches nothing and a root
\* listing that is absent have the same outcome: the listing is the only
\* request of that root, the root is left without versions, and the next
\* request is the listing of the next root or, after the last root, the
\* call of the fallback.
C11_EmptyListingAsAbsent ==
  Crawling =>
    \A k \in 1..Len(answered) :
      (fetched[k].kind = "root" /\ MatchedSegments(k) = {}) =>
        LET i == fetched[k].root
        IN /\ RequestsOfRoot(i) = {k}
           /\ idx > i
           /\ Len(tried) > i /\ tried[i + 1] = NullList
           /\ Len(fetched) > k
           /\ IF i + 1 < Len(searchRoots)
              THEN /\ fetched[k + 1].kind = "root"
                   /\ fetched[k + 1].root = i + 1
                   /\ fetched[k + 1].url = searchRoots[i + 2] \o <<"/">>
              ELSE /\ fetched[k + 1].kind = "fallback"
                   /\ fallbackArgs = <<config>>
                   /\ Len(fetched) = k + 1

C11_Witness ==
  /\ Crawling /\ pc = "awaitFallback"
  /\ searchRoots = <<RootSlashJoined, RootDotJoined>>
  /\ answered = <<Page(<<Bar>>), NoContent>>
  /\ Len(fetched) = 3

\* getReleases found versions under the current root and no descriptor
\* request of that root has been answered with content
NoDescriptorFound ==
  /\ entry = "getReleases"
  /\ versions # NullList
  /\ \A k \in 1..Len(pomRes) : ~pomRes[k].ok

\* C12: when no descriptor request is answered with content, for any
\* matched subdirectory and either file name, getReleases still returns a
\* result: the releases and the dependencyUrl of the root, without homepage
\* and without sourceUrl; an absent descriptor never makes the call throw,
\* move to the next root or call the fallback.
C12_NoDescriptorStillSuccess ==
  NoDescriptorFound =>
    /\ pc \in {"awaitPom", "done"}
    /\ fallbackArgs = <<>>
    /\ Len(tried) = idx
    /\ pc = "awaitPom" => Len(pomRes) < 2 * Len(artifactSubdirs)
    /\ pc = "done" =>
         /\ latestVersion # <<>> => Len(pomRes) = 2 * Len(artifactSubdirs)
         /\ ret # NullResult
         /\ ret.dependencyUrl = searchRoots[idx + 1]
         /\ ret.releases = [i \in 1..Len(versions) |-> [version |-> versions[i]]]
         /\ ret.homepage = Undefined
         /\ ret.sourceUrl = Undefined

C12_Witness ==
  /\ NoDescriptorFound /\ pc = "done"
  /\ Len(artifactSubdirs) = 2
  /\ pomRes = <<NoContent, NoContent, NoContent, NoContent>>
  /\ ret # NullResult /\ Len(ret.releases) = 3
  /\ ret.homepage = Undefined /\ ret.sourceUrl = Undefined

\* the place of a request in the turn of a root: the root listing, then the
\* subdirectory listings, then the descriptors
KindRank(kind) ==
  CASE kind = "root" -> 1 [] kind = "subdir" -> 2 [] kind = "pom" -> 3 [] OTHER -> 4

\* C13: in a call of getReleases at most one request is outstanding: a
\* request is issued only when every earlier one has been answered, and the
\* call waits exactly while one is outstanding.  Requests go root by root in
\* the order of searchRoots, the fallback last, and the subdirectory
\* listings of a root are requested in the order of its matched
\* subdirectories.
C13_OneRequestAtATime ==
  entry = "getReleases" =>
    /\ Cardinality(inflight) <= 1
    /\ Len(answered) <= Len(fetched) /\ Len(fetched) <= Len(answered) + 1
    /\ (Len(fetched) = Len(answered) + 1)
         <=> pc \in {"awaitRoot", "awaitSubdir", "awaitPom", "awaitFallback"}
    /\ inflight = IF Len(fetched) = Len(answered) + 1
                  THEN {[kind |-> fetched[Len(fetched)].kind, url |-> fetched[Len(fetched)].url]}
                  ELSE {}
    /\ \A j, k \in 1..Len(fetched) :
         j < k =>
           /\ fetched[j].root <= fetched[k].root
           /\ fetched[j].root = fetched[k].root
                => KindRank(fetched[j].kind) <= KindRank(fetched[k].kind)
           /\ fetched[j].kind = "root" => fetched[k].kind # "root" \/ fetched[j].root < fetched[k].root
    /\ \A r, k \in 1..Len(fetched) :
         (fetched[r].kind = "root" /\ fetched[k].kind = "subdir"
            /\ fetched[r].root = idx /\ fetched[k].root = idx) =>
           /\ k - r \in 1..Len(artifactSubdirs)
           /\ fetched[k].url = searchRoots[idx + 1] \o <<"/">> \o artifactSubdirs[k - r] \o <<"/">>

C13_Witness ==
  /\ entry = "getReleases" /\ pc = "awaitPom"
  /\ idx = 1
  /\ Len(artifactSubdirs) = 2
  /\ Len(fetched) = 6 /\ Len(answered) = 5
  /\ Cardinality(inflight) = 1

\* the subdirectories whose listing was answered with content
PresentListings == {i \in 1..Len(seen) : seen[i].ok}

\* the versions gathered from the listings that were present
GatheredFromPresent ==
  UNION {{e \in Entries(searchRoot, artifactSubdirs[i], seen[i]) : e = <<>> \/ e[1] # "."} :
           i \in PresentListings}

\* C14: in getPackageReleases a subdirectory whose listing is absent is
\* skipped: the call does not throw and does not return early, the listing
\* of every subdirectory is requested, in order, and the versions returned
\* are exactly those of the listings that were present.
C14_AbsentSubdirSkipped ==
  (entry = "getPackageReleases" /\ artifactSubdirs # NullList) =>
    /\ pc \in {"called", "awaitSubdir", "done"}
    /\ \A k \in 1..Len(fetched) :
         /\ k <= Len(artifactSubdirs)
         /\ fetched[k].url = searchRoot \o <<"/">> \o artifactSubdirs[k] \o <<"/">>
    /\ \A k \in 1..Len(seen) :
         ~seen[k].ok => (pc = "done" \/ Len(fetched) > k)
    /\ pc = "done" =>
         /\ Len(fetched) = Len(artifactSubdirs)
         /\ Len(seen) = Len(artifactSubdirs)
         /\ (IF ret = NullList THEN {} ELSE Range(ret)) = GatheredFromPresent

C14_Witness ==
  /\ ReleasesReturned
  /\ artifactSubdirs = <<Foo, Foo_2_12>>
  /\ seen = <<NoContent, Page(<<V1_10, V1_2>>)>>
  /\ Len(fetched) = 2
  /\ ret = <<V1_2, V1_10>>

\* the responses the run has shown for a request: one of call c may learn
\* the answer to a URL from the other call's log, the fallback's only from
\* its own
KnownAnswers(c, req) ==
  UNION {{calls[d].answered[k] :
            k \in {j \in 1..Len(calls[d].answered) :
                     /\ calls[d].fetched[j].kind = req.kind
                     /\ calls[d].fetched[j].url = req.url}} :
           d \in IF req.kind = "fallback" THEN {c} ELSE DOMAIN calls}

\* the step of a waiting call on the response res
AfterAnswer(s, res) ==
  CASE s.pc = "awaitRoot" -> RootListingReturned(s, res)
    [] s.pc = "awaitSubdir" -> SubdirListingReturned(s, res)
    [] s.pc = "awaitPom" -> PomReturned(s, res)
    [] OTHER -> FallbackReturned(s, res)

\* the call of c run alone from s, every request answered as the run has
\* shown, up to its end or to a request the run has no answer for
RECURSIVE RunAlone(_, _)
RunAlone(c, s) ==
  IF s.pc \in {"done", "threw"} THEN s
  ELSE IF s.pc = "called" THEN RunAlone(c, GetReleasesCall(s))
  ELSE LET known == KnownAnswers(c, s.fetched[Len(s.fetched)])
       IN IF known = {} THEN s
          ELSE RunAlone(c, AfterAnswer(s, CHOOSE res \in known : TRUE))

AloneFrom(c) ==
  RunAlone(c, Fresh("getReleases", calls[c].config, <<>>, <<>>, Undefined, NullList, Null))

\* every call issues the requests it issues alone, in the same order, and a
\* call that has ended has ended as it does alone
C15_SameAsAlone ==
  \A c \in DOMAIN calls :
    /\ Len(calls[c].fetched) <= Len(AloneFrom(c).fetched)
    /\ SubSeq(AloneFrom(c).fetched, 1, Len(calls[c].fetched)) = calls[c].fetched
    /\ calls[c].pc \in {"done", "threw"} =>
         /\ AloneFrom(c).pc = calls[c].pc
         /\ AloneFrom(c).ret = calls[c].ret
         /\ AloneFrom(c).fetched = calls[c].fetched

\* a step changes the locals of one call
C15_Step ==
  \A c, d \in DOMAIN calls :
    (c # d /\ calls'[c] # calls[c]) => calls'[d] = calls[d]

\* C15: two calls of getReleases for different packages, their steps
\* interleaved in any way and every URL answered the same way for both, each
\* return what they return alone and issue the requests they issue alone; no
\* step of one call changes a local of the other.
C15_CallsIndependent == [](C15_SameAsAlone) /\ [][C15_Step]_vars

C15_Witness ==
  /\ DOMAIN calls = {1, 2}
  /\ calls[1].config.packageName = PkgSuffixed
  /\ calls[1].pc = "done" /\ calls[2].pc = "done"
  /\ calls[1].ret # NullResult /\ calls[2].ret # NullResult
  /\ Len(calls[1].ret.releases) = 1 /\ Len(calls[2].ret.releases) = 3
  /\ calls[2].idx = 1

\* the descriptor requests of the run, in order: they are all of one root
PomRequests == {k \in 1..Len(fetched) : fetched[k].kind = "pom"}

\* the url of the m-th descriptor of the scan of the current root for version v
DescriptorUrl(m, v) ==
  LET dir == artifactSubdirs[((m - 1) \div 2) + 1]
      name == IF (m - 1) % 2 = 0 THEN dir ELSE BeforeUnderscore(dir)
  IN searchRoots[idx + 1] \o <<"/">> \o dir \o <<"/">> \o v \o <<"/">>
       \o name \o <<"-">> \o v \o <<".", "p", "o", "m">>

\* every descriptor url of the run is built with version v
DescriptorsBuiltWith(v) ==
  \A k \in PomRequests :
    /\ fetched[k].root = idx
    /\ fetched[k].url = DescriptorUrl(k - Min(PomRequests) + 1, v)

\* the versions found under the current root that no other one exceeds
MaximalVersions ==
  {v \in Range(versions) : \A w \in Range(versions) : Compare(v, w) >= 0}

\* getReleases found versions under the current root
VersionsDiscovered == Crawling /\ versions # NullList

ShowsVersion(j) ==
  /\ j <= Len(answered)
  /\ answered[j].ok
  /\ \E n \in 1..Len(answered[j].links) :
       LET e == ReplaceFirst(answered[j].links[n], Tail(fetched[j].url), <<>>)
       IN e = <<>> \/ e[1] # "."

\* C17: a descriptor is requested under a root only after a version was
\* found under that root; a root without versions, or without matched
\* subdirectories, has no descriptor request and getUrls gives it empty
\* metadata; a homepage or sourceUrl of the result is that of a descriptor
\* under the root that dependencyUrl names.
C17_DescriptorsAfterVersions ==
  entry = "getReleases" =>
    /\ \A k \in PomRequests :
         /\ fetched[k].root = idx
         /\ versions # NullList /\ Len(versions) > 0
         /\ StartsWith(fetched[k].url, searchRoots[idx + 1] \o <<"/">>)
         /\ \E j \in 1..(k - 1) :
              /\ fetched[j].kind = "subdir"
              /\ fetched[j].root = fetched[k].root
              /\ ShowsVersion(j)
    /\ \A i \in 1..Len(tried) :
         /\ tried[i] = NullList
         /\ \A k \in PomRequests : fetched[k].root # i - 1
    /\ (versions = NullList /\ pc \in {"awaitFallback", "done"}) =>
         PomRequests = {} /\ urls = EmptyUrls
    /\ (pc = "done" /\ versions # NullList) =>
         /\ ret # NullResult
         /\ (ret.homepage # Undefined \/ ret.sourceUrl # Undefined) =>
              \E k \in PomRequests :
                /\ answered[k].ok
                /\ StartsWith(fetched[k].url, ret.dependencyUrl \o <<"/">>)
                /\ ret.homepage = answered[k].pom.url
                /\ (ret.sourceUrl = Undefined) <=> (answered[k].pom.scmUrl = Undefined)

C17_Witness ==
  /\ entry = "getReleases" /\ pc = "done"
  /\ tried = <<NullList>>
  /\ Cardinality(RequestsOfRoot(0)) = 3
  /\ PomRequests # {}
  /\ ret # NullResult /\ ret.dependencyUrl = RootDotJoined
  /\ ret.homepage = Home /\ ret.sourceUrl # Undefined

\* the number of subdirectories matched under root i: those of its listing,
\* or the one the suffix narrows them to
MatchedCount(i) ==
  LET at == {k \in 1..Len(answered) : fetched[k].kind = "root" /\ fetched[k].root = i}
  IN IF at = {} THEN 0
     ELSE LET segs == MatchedSegments(Min(at))
          IN IF /\ scalaVersion \notin {Undefined, Null, <<>>}
                /\ (artifact \o <<"_">> \o scalaVersion) \in segs
             THEN 1
             ELSE Cardinality(segs)

RequestsOfKind(kind, i) ==
  Cardinality({k \in 1..Len(fetched) : fetched[k].kind = kind /\ fetched[k].root = i})

\* packageName has no ':' to split at
Malformed == \A n \in 1..Len(config.packageName) : config.packageName[n] # ":"

NoRegistry == config.registryUrl \in {Undefined, Null, <<>>}

\* the requests of a call are bounded: one listing per root, for each root
\* one listing and two descriptors per matched subdirectory, one fallback
C18_Bounded ==
  /\ idx \in 0..2
  /\ Len(fallbackArgs) <= 1
  /\ \A i \in {0, 1} :
       /\ RequestsOfKind("root", i) <= 1
       /\ RequestsOfKind("subdir", i) <= MatchedCount(i)
       /\ RequestsOfKind("pom", i) <= 2 * MatchedCount(i)
  /\ \A k \in 1..Len(fetched) :
       IF fetched[k].kind = "fallback" THEN fetched[k].root = 2 ELSE fetched[k].root \in {0, 1}
  /\ RequestsOfKind("fallback", 2) = Len(fallbackArgs)
  /\ Len(fetched) <= 2 + 3 * (MatchedCount(0) + MatchedCount(1)) + 1

\* a call that returned has exactly one of the three outcomes
C18_OneOutcome ==
  pc = "done" =>
    \/ /\ versions # NullList /\ fallbackArgs = <<>>
       /\ ret # NullResult /\ ret.dependencyUrl = searchRoots[idx + 1]
    \/ /\ versions = NullList /\ fallbackArgs # <<>> /\ idx = 2
       /\ ret = fallbackRes
    \/ /\ NoRegistry /\ fetched = <<>> /\ fallbackArgs = <<>>
       /\ ret = NullResult

\* the call has a step to take: it was called and has not started, or it
\* waits for a response and there is one to receive (the guards of the
\* actions of Next)
CanStep ==
  \/ pc = "called"
  \/ pc = "awaitRoot" /\ RootResponses # {}
  \/ pc = "awaitSubdir" /\ SubdirResponses # {}
  \/ pc = "awaitPom" /\ PomResponses # {}
  \/ pc = "awaitFallback" /\ FallbackResponses # {}

\* what every step of a call increases: requests issued, responses
\* received, and the end of the call
Progress ==
  Len(fetched) + Len(answered) + (IF pc \in {"done", "threw"} THEN 1 ELSE 0)

C18_State ==
  entry = "getReleases" =>
    /\ pc \in {"done", "threw"} \/ CanStep
    /\ pc = "threw" => (Malformed /\ ~NoRegistry /\ fetched = <<>> /\ fallbackArgs = <<>>)
    /\ (Malformed /\ ~NoRegistry) => pc \in {"called", "threw"}
    /\ C18_Bounded
    /\ C18_OneOutcome
    /\ Progress <= 2 * (2 + 3 * (MatchedCount(0) + MatchedCount(1)) + 1) + 1

\* every step takes the call nearer its end: it issues a request, receives
\* a response or ends the call; the root index only increases, and the
\* requests issued stay issued
C18_Step ==
  /\ Progress' > Progress
  /\ idx' >= idx
  /\ SubSeq(fetched', 1, Len(fetched)) = fetched
  /\ pc \notin {"done", "threw"}

C19_NoRegistryReturnsNull ==
  (entry = "getReleases" /\ config.registryUrl \in {Undefined, Null, <<>>}) =>
    /\ pc \in {"called", "done"}
    /\ searchRoots = <<>>
    /\ fetched = <<>> /\ answered = <<>> /\ inflight = {}
    /\ fallbackArgs = <<>>
    /\ pc = "done" => ret = NullResult

C19_Witness ==
  /\ entry = "getReleases" /\ pc = "done"
  /\ config.registryUrl = Undefined
  /\ config.packageName = PkgNoColon
  /\ ret = NullResult
  /\ fetched = <<>> /\ searchRoots = <<>> /\ fallbackArgs = <<>>

====
